---- MODULE Spec2Model ----
(***************************************************************************)
(* Cell state manager of nova (nova/cells/state.py): the in-memory maps of *)
(* parent and child cells, the staleness-gated, lock-guarded               *)
(* synchronisation against the database, the local capacity computation   *)
(* and the update operations, run by several threads.                      *)
(***************************************************************************)
EXTENDS Integers, Sequences, FiniteSets, TLC

(***************************************************************************)
(* Bounds of the model.                                                    *)
(***************************************************************************)
NumThreads == 2
MaxDays == 1
MaxDbCells == 2
MaxCalls == 3
MaxFree == 6

(***************************************************************************)
(* Program constants.                                                      *)
(***************************************************************************)
db_check_interval == 60
SecondsPerDay == 86400
MinInstant == 0

Threads == 1 .. NumThreads
MainThread == CHOOSE t \in Threads : \A u \in Threads : t <= u
None == "None"

(***************************************************************************)
(* The clock.  Instants are seconds since datetime.min; the clock is       *)
(* observed at a few instants of each day.                                 *)
(***************************************************************************)
SecondsOfDay == {30, 60, 90, 120}
Instants == {SecondsPerDay * d + s : d \in 1 .. MaxDays, s \in SecondsOfDay}

(***************************************************************************)
(* Dictionaries are functions with a finite domain.                        *)
(***************************************************************************)
EmptyDict == [k \in {} |-> 0]
DictSet(d, k, v) == [x \in (DOMAIN d) \cup {k} |-> IF x = k THEN v ELSE d[x]]
DictDel(d, k) == [x \in (DOMAIN d) \ {k} |-> d[x]]
Max(a, b) == IF a >= b THEN a ELSE b

\* timedelta.seconds: the seconds field of a normalised timedelta
\* (0 <= seconds < 86400, whole days are held in the days field).
TimedeltaSeconds(diff) == diff % SecondsPerDay

\* _time_to_sync, reading the clock at instant t
time_to_sync(t, last) == TimedeltaSeconds(t - last) >= db_check_interval

(***************************************************************************)
(* Small input domains.                                                    *)
(***************************************************************************)
CellNames == {"c1", "c2"}
RpcHosts == {"h1"}
ObjIds == 1 .. (2 * Cardinality(CellNames) + NumThreads)

\* a row of the cells table, as db.cell_get_all returns it
DbRecords == [name : CellNames, is_parent : BOOLEAN, rpc_host : RpcHosts]

RECURSIVE SeqsUpTo(_, _)
SeqsUpTo(S, n) ==
    IF n = 0 THEN {<<>>}
    ELSE LET shorter == SeqsUpTo(S, n - 1)
         IN shorter \cup {Append(q, x) : q \in {r \in shorter : Len(r) = n - 1}, x \in S}

(***************************************************************************)
(* class CellState                                                         *)
(***************************************************************************)
\* CellState.__init__; oid is the identity of the object
CellState(id, cell_name, is_me) ==
    [oid |-> id, name |-> cell_name, is_me |-> is_me, last_seen |-> MinInstant,
     capabilities |-> EmptyDict, capacities |-> EmptyDict, db_info |-> EmptyDict]

\* mutant: db_info keeps the name of the row
update_db_info_KeepsName(cell, cell_db_info) ==
    [cell EXCEPT !.db_info = cell_db_info]

\* mutant: a cell the database still lists starts afresh
update_db_info_ResetsCapabilities(cell, cell_db_info) ==
    [cell EXCEPT !.db_info = [k \in (DOMAIN cell_db_info) \ {"name"} |-> cell_db_info[k]],
                 !.capabilities = EmptyDict]

\* CellState.update_db_info: the row without its name
update_db_info(cell, cell_db_info) ==
    [cell EXCEPT !.db_info = [k \in (DOMAIN cell_db_info) \ {"name"} |-> cell_db_info[k]]]

\* mutant: the new capabilities are merged into the old ones
update_capabilities_Merges(cell, cell_metadata, t) ==
    [cell EXCEPT !.last_seen = t,
                 !.capabilities =
                    [n \in (DOMAIN cell.capabilities) \cup (DOMAIN cell_metadata) |->
                        IF n \in DOMAIN cell_metadata THEN cell_metadata[n]
                        ELSE cell.capabilities[n]]]

\* CellState.update_capabilities
update_capabilities(cell, cell_metadata, t) ==
    [cell EXCEPT !.last_seen = t, !.capabilities = cell_metadata]

\* CellState.update_capacities
update_capacities(cell, capacities, t) ==
    [cell EXCEPT !.last_seen = t, !.capacities = capacities]

(***************************************************************************)
(* CellStateManager._refresh_cells_from_db                                 *)
(***************************************************************************)
\* dict([(cell['name'], cell) for cell in db_cells]): the last row of a name wins
DbCellsDict(db_cells) ==
    LET names == {db_cells[i].name : i \in DOMAIN db_cells}
        last(n) == CHOOSE i \in DOMAIN db_cells :
                      /\ db_cells[i].name = n
                      /\ \A j \in DOMAIN db_cells : db_cells[j].name = n => j <= i
    IN [n \in names |-> db_cells[last(n)]]

\* mutant: the first loop keeps a cell whose is_parent changed
UpdateCurrentCells_KeepsReclassified(cells_dict, dbd) ==
    LET kept == {n \in DOMAIN cells_dict : n \in DOMAIN dbd}
    IN [n \in kept |-> update_db_info(cells_dict[n], dbd[n])]

\* mutant: the first loop keeps a cell the database no longer lists
UpdateCurrentCells_KeepsDisappeared(cells_dict, dbd) ==
    LET kept == {n \in DOMAIN cells_dict :
                    n \in DOMAIN dbd => cells_dict[n].db_info.is_parent = dbd[n].is_parent}
    IN [n \in kept |-> IF n \in DOMAIN dbd THEN update_db_info(cells_dict[n], dbd[n])
                                             ELSE cells_dict[n]]

\* first loop, for one of the two maps: update the cells the database still
\* lists with the same is_parent, delete the others
UpdateCurrentCells(cells_dict, dbd) ==
    LET kept == {n \in DOMAIN cells_dict :
                    /\ n \in DOMAIN dbd
                    /\ cells_dict[n].db_info.is_parent = dbd[n].is_parent}
    IN [n \in kept |-> update_db_info(cells_dict[n], dbd[n])]

\* mutant: the second loop creates a CellState for every row
NewCellNames_All(parents, children, dbd) == DOMAIN dbd

\* the rows the second loop creates a CellState for
NewCellNames(parents, children, dbd) ==
    {n \in DOMAIN dbd : IF dbd[n].is_parent THEN n \notin DOMAIN parents
                                              ELSE n \notin DOMAIN children}

\* identities of the objects the second loop allocates: distinct, unused
FreshOids(names, used) ==
    CHOOSE f \in [names -> ObjIds \ used] :
        /\ \A a, b \in names : a # b => f[a] # f[b]
        /\ \A a \in names : \A o \in (ObjIds \ used) : o < f[a] => \E b \in names : f[b] = o

\* second loop, for one of the two maps
AddNewCells(cells_dict, dbd, isParentMap, created, oids) ==
    LET mine == {n \in created : dbd[n].is_parent = isParentMap}
    IN [n \in (DOMAIN cells_dict) \cup mine |->
            IF n \in mine
            THEN update_db_info(CellState(oids[n], n, FALSE), dbd[n])
            ELSE cells_dict[n]]

(***************************************************************************)
(* CellStateManager._update_our_capacity                                   *)
(***************************************************************************)
\* nested dictionaries of numbers: a value is a number or a dictionary
Num(n) == [num |-> n]
Dict(f) == [dict |-> f]
IsDict(v) == "dict" \in DOMAIN v

RECURSIVE SumFn(_)
SumFn(f) ==
    IF DOMAIN f = {} THEN 0
    ELSE LET k == CHOOSE x \in DOMAIN f : TRUE
         IN f[k] + SumFn(DictDel(f, k))

\* Python 2 integer division: the floor of the quotient, b # 0
FloorDiv(a, b) == IF b > 0 THEN a \div b ELSE (0 - a) \div (0 - b)

\* a compute node without a service record
NoService == EmptyDict

\* mutant: the compute nodes of disabled services are counted as well
GetComputeHosts_IncludesDisabled(compute_nodes) ==
    LET ok == {i \in DOMAIN compute_nodes : compute_nodes[i].service # NoService}
        hosts == {compute_nodes[i].service.host : i \in ok}
        last(h) == CHOOSE i \in ok :
                      /\ compute_nodes[i].service.host = h
                      /\ \A j \in ok : compute_nodes[j].service.host = h => j <= i
    IN [h \in hosts |->
            [free_ram_mb |-> compute_nodes[last(h)].free_ram_mb,
             free_disk_mb |-> compute_nodes[last(h)].free_disk_gb * 1024]]

\* _get_compute_hosts: the hosts of the compute nodes whose service is
\* present and enabled; a later node of a host replaces an earlier one
GetComputeHosts(compute_nodes) ==
    LET ok == {i \in DOMAIN compute_nodes :
                  /\ compute_nodes[i].service # NoService
                  /\ ~compute_nodes[i].service.disabled}
        hosts == {compute_nodes[i].service.host : i \in ok}
        last(h) == CHOOSE i \in ok :
                      /\ compute_nodes[i].service.host = h
                      /\ \A j \in ok : compute_nodes[j].service.host = h => j <= i
    IN [h \in hosts |->
            [free_ram_mb |-> compute_nodes[last(h)].free_ram_mb,
             free_disk_mb |-> compute_nodes[last(h)].free_disk_gb * 1024]]

\* mutant: the quotient is not clamped at zero
free_units_Unclamped(tot, per_inst) ==
    IF per_inst # 0 THEN FloorDiv(tot, per_inst) ELSE 0

\* _free_units
free_units(tot, per_inst) ==
    IF per_inst # 0 THEN Max(0, FloorDiv(tot, per_inst)) ELSE 0

\* (root_gb + ephemeral_gb) * 1024
DiskMb(instance_type) == (instance_type.root_gb + instance_type.ephemeral_gb) * 1024

\* ram_mb_free_units after the loops over compute_hosts and instance_types
RamFreeUnits(compute_hosts, instance_types) ==
    LET keys == {ToString(instance_types[i].memory_mb) : i \in DOMAIN instance_types}
        adds(k) == {<<h, i>> \in (DOMAIN compute_hosts) \X (DOMAIN instance_types) :
                        ToString(instance_types[i].memory_mb) = k}
    IN [k \in keys |->
            SumFn([p \in adds(k) |->
                free_units(compute_hosts[p[1]].free_ram_mb, instance_types[p[2]].memory_mb)])]

\* disk_mb_free_units after the loops over compute_hosts and instance_types
DiskFreeUnits(compute_hosts, instance_types) ==
    LET keys == {ToString(DiskMb(instance_types[i])) : i \in DOMAIN instance_types}
        adds(k) == {<<h, i>> \in (DOMAIN compute_hosts) \X (DOMAIN instance_types) :
                        ToString(DiskMb(instance_types[i])) = k}
    IN [k \in keys |->
            SumFn([p \in adds(k) |->
                free_units(compute_hosts[p[1]].free_disk_mb, DiskMb(instance_types[p[2]]))])]

\* {'total_mb': total, 'units_by_mb': units}
FreeEntry(total, units) ==
    Dict([j \in {"total_mb", "units_by_mb"} |->
            IF j = "total_mb" THEN Num(total)
            ELSE Dict([x \in DOMAIN units |-> Num(units[x])])])

\* mutant: the totals are accumulated in the loop over the instance types
OurCapacity_TotalsPerInstanceType(compute_nodes, instance_types) ==
    LET compute_hosts == GetComputeHosts(compute_nodes)
    IN IF DOMAIN compute_hosts = {} THEN EmptyDict
       ELSE [k \in {"ram_free", "disk_free"} |->
               IF k = "ram_free"
               THEN FreeEntry(Len(instance_types)
                                 * SumFn([h \in DOMAIN compute_hosts |->
                                             compute_hosts[h].free_ram_mb]),
                              RamFreeUnits(compute_hosts, instance_types))
               ELSE FreeEntry(Len(instance_types)
                                 * SumFn([h \in DOMAIN compute_hosts |->
                                             compute_hosts[h].free_disk_mb]),
                              DiskFreeUnits(compute_hosts, instance_types))]

\* the capacities _update_our_capacity hands to update_capacities
OurCapacity(compute_nodes, instance_types) ==
    LET compute_hosts == GetComputeHosts(compute_nodes)
    IN IF DOMAIN compute_hosts = {} THEN EmptyDict
       ELSE [k \in {"ram_free", "disk_free"} |->
               IF k = "ram_free"
               THEN FreeEntry(SumFn([h \in DOMAIN compute_hosts |-> compute_hosts[h].free_ram_mb]),
                              RamFreeUnits(compute_hosts, instance_types))
               ELSE FreeEntry(SumFn([h \in DOMAIN compute_hosts |-> compute_hosts[h].free_disk_mb]),
                              DiskFreeUnits(compute_hosts, instance_types))]

(***************************************************************************)
(* Capabilities.                                                           *)
(***************************************************************************)
\* update_cell_capabilities: capabilities[capab_name] = set(values)
CapabilitiesAsSets(capabilities) ==
    [n \in DOMAIN capabilities |->
        {capabilities[n][i] : i \in DOMAIN capabilities[n]}]

\* a string from its characters
RECURSIVE Join(_)
Join(chars) == IF chars = <<>> THEN "" ELSE Head(chars) \o Join(Tail(chars))

\* str.split(sep) of a sequence of characters: the list of the pieces
RECURSIVE Split(_, _)
Split(chars, sep) ==
    IF \A i \in DOMAIN chars : chars[i] # sep THEN <<chars>>
    ELSE LET i == CHOOSE x \in DOMAIN chars :
                     chars[x] = sep /\ \A y \in 1 .. (x - 1) : chars[y] # sep
         IN <<SubSeq(chars, 1, i - 1)>> \o Split(SubSeq(chars, i + 1, Len(chars)), sep)

\* cap.split('=', 1) gives two pieces
WellFormed(cap) == \E i \in DOMAIN cap : cap[i] = "="

\* one round of the loop of __init__ over CONF.cells.capabilities
ParseCapability(my_cell_capabs, cap) ==
    LET i == CHOOSE x \in DOMAIN cap : cap[x] = "=" /\ \A y \in 1 .. (x - 1) : cap[y] # "="
        name == Join(SubSeq(cap, 1, i - 1))
        pieces == Split(SubSeq(cap, i + 1, Len(cap)), ";")
    IN DictSet(my_cell_capabs, name, {Join(pieces[j]) : j \in DOMAIN pieces})

\* my_cell_capabs after the declarations before the first malformed one
RECURSIVE ParseCapabilities(_, _)
ParseCapabilities(my_cell_capabs, caps) ==
    IF caps = <<>> \/ ~WellFormed(Head(caps)) THEN my_cell_capabs
    ELSE ParseCapabilities(ParseCapability(my_cell_capabs, Head(caps)), Tail(caps))

(***************************************************************************)
(* Inputs of the operations.                                               *)
(***************************************************************************)
\* what db.cell_get_all may return
DbCellLists == SeqsUpTo(DbRecords, MaxDbCells)

\* what db.compute_node_get_all may return
Node(host, disabled, ram, disk) ==
    [service |-> [host |-> host, disabled |-> disabled], free_ram_mb |-> ram, free_disk_gb |-> disk]
ComputeNodeLists ==
    {<<>>,
     <<Node("n1", FALSE, 4096, 50)>>,
     <<Node("n1", FALSE, 4096, 50), Node("n2", TRUE, 2048, 20)>>,
     <<[service |-> NoService, free_ram_mb |-> 2048, free_disk_gb |-> 20]>>}

\* what db.instance_type_get_all may return
InstanceTypeLists == {<<[memory_mb |-> 1024, root_gb |-> 10, ephemeral_gb |-> 0]>>}

\* the capabilities argument of update_cell_capabilities: lists of values
CapabilityInputs ==
    {[n \in {"x"} |-> <<"a", "b", "a">>], [n \in {"y"} |-> <<"b">>]}

\* the capacities argument of update_cell_capacities
CapacityInputs ==
    {[k \in {"ram_free"} |-> FreeEntry(100, [x \in {"10"} |-> 5])],
     [k \in {"disk_free"} |-> FreeEntry(50, [x \in {"20"} |-> 1])]}

\* CONF.cells.capabilities: declarations, as lists of characters
ConfCapabilities ==
    {<<>>, <<<<"x", "=", "a", ";", "b">>>>, <<<<"y", "=", "a">>, <<"z">>>>}

\* the operations a thread may call once the manager is constructed
CallOps ==
    {[name |-> "accessor", cell_name |-> None]}
    \cup [name : {"update_cell_capabilities", "update_cell_capacities"}, cell_name : CellNames]
InitOp == [name |-> "__init__", cell_name |-> None]
NoOp == [name |-> None, cell_name |-> None]

(***************************************************************************)
(* State.                                                                  *)
(***************************************************************************)
VARIABLES
    now,                \* timeutils.utcnow()
    last_cell_db_check, \* CellStateManager.last_cell_db_check
    lock,               \* the threads holding the lock 'cell-db-sync'
    parent_cells,       \* CellStateManager.parent_cells: name -> CellState
    child_cells,        \* CellStateManager.child_cells: name -> CellState
    my_cell_state,      \* CellStateManager.my_cell_state
    constructed,        \* __init__ has returned
    pc,                 \* where each thread is
    op,                 \* the operation each thread is in
    cell,               \* the local variable cell of the update operations: {oid} or {}
    db_cells_dict,      \* the local variable db_cells_dict of _refresh_cells_from_db
    lastCompleted,      \* history: last_cell_db_check of the last pass that ran to its end
    lastFailed,         \* history: last_cell_db_check of the last pass that raised
    preempted,          \* history: another thread began a pass since this one saw 'due'
    calls,              \* history: the number of calls made so far
    fetched,            \* history: the rows the last _update_our_capacity fetched
    passChanged,        \* history: the pass in progress, or the last that raised, changed the maps
    files,              \* the files that exist, of path, path.part and path.converted
    fetch_pc,           \* where the call of fetch_to_raw is
    image,              \* the image: what qemu-img info says of it and of its conversion
    stale,              \* history: a pass was due when the call began and none has ended since
    force_raw_images    \* CONF.force_raw_images

vars == <<now, last_cell_db_check, lock, parent_cells, child_cells, my_cell_state,
          constructed, pc, op, cell, db_cells_dict, lastCompleted, lastFailed,
          preempted, calls, stale, fetched, passChanged, files, fetch_pc, image,
          force_raw_images>>

\* the state of fetch_to_raw
imageVars == <<files, fetch_pc, image, force_raw_images>>

\* the state of the cell state manager
cellVars == <<now, last_cell_db_check, lock, parent_cells, child_cells, my_cell_state,
              constructed, pc, op, cell, db_cells_dict, lastCompleted, lastFailed,
              preempted, calls, stale, fetched, passChanged>>

\* the statements of _cell_db_sync a thread runs holding the lock
SyncBody == {"recheck", "stamp", "_refresh_cells_from_db", "add_new_cells",
             "_update_our_capacity"}
\* those after last_cell_db_check = utcnow()
AfterStamp == {"_refresh_cells_from_db", "add_new_cells", "_update_our_capacity"}

\* where a thread goes on when _cell_db_sync returns
AfterSync(t) == IF op[t].name = "__init__" THEN "init_capabilities" ELSE "f"

\* a sync is due at instant t: a whole interval has passed since the last check
Due(t, last) == t - last >= db_check_interval

\* the manager under construction
InitCells ==
    /\ now \in Instants
    /\ last_cell_db_check = MinInstant
    /\ lock = {}
    /\ parent_cells = EmptyDict
    /\ child_cells = EmptyDict
    /\ my_cell_state = CellState(0, "me", TRUE)
    /\ constructed = FALSE
    /\ pc = [t \in Threads |-> IF t = MainThread THEN "_cell_db_sync" ELSE "idle"]
    /\ op = [t \in Threads |-> IF t = MainThread THEN InitOp ELSE NoOp]
    /\ cell = [t \in Threads |-> {}]
    /\ db_cells_dict = [t \in Threads |-> EmptyDict]
    /\ lastCompleted = MinInstant
    /\ lastFailed = MinInstant
    /\ preempted = [t \in Threads |-> FALSE]
    /\ stale = [t \in Threads |-> FALSE]
    /\ calls = 0
    /\ fetched = [compute_nodes |-> <<>>, instance_types |-> <<>>]
    /\ passChanged = FALSE

\* no call of fetch_to_raw
NoFetch ==
    /\ files = {}
    /\ fetch_pc = "idle"
    /\ image = [file_format |-> "raw", backing_file |-> None, converted_format |-> "raw"]
    /\ force_raw_images = FALSE

Init == InitCells /\ NoFetch

\* time passes
Tick(i) ==
    /\ i > now
    /\ now' = i
    /\ UNCHANGED <<imageVars, passChanged, fetched, last_cell_db_check, lock, parent_cells, child_cells, my_cell_state,
                   constructed, pc, op, cell, db_cells_dict, lastCompleted, lastFailed,
                   preempted, stale, calls>>

\* a thread calls a method decorated with sync_from_db
Call(t, o) ==
    /\ constructed
    /\ pc[t] = "idle"
    /\ calls < MaxCalls
    /\ calls' = calls + 1
    /\ pc' = [pc EXCEPT ![t] = "sync_from_db"]
    /\ op' = [op EXCEPT ![t] = o]
    /\ stale' = [stale EXCEPT ![t] = Due(now, last_cell_db_check)]
    /\ UNCHANGED <<imageVars, passChanged, fetched, now, last_cell_db_check, lock, parent_cells, child_cells, my_cell_state,
                   constructed, cell, db_cells_dict, lastCompleted, lastFailed, preempted>>

\* wrapper of sync_from_db: if self._time_to_sync(): self._cell_db_sync()
SyncFromDb(t) ==
    /\ pc[t] = "sync_from_db"
    /\ pc' = [pc EXCEPT ![t] = IF time_to_sync(now, last_cell_db_check)
                               THEN "_cell_db_sync" ELSE "f"]
    /\ UNCHANGED <<imageVars, passChanged, fetched, now, last_cell_db_check, lock, parent_cells, child_cells, my_cell_state,
                   constructed, op, cell, db_cells_dict, lastCompleted, lastFailed,
                   preempted, stale, calls>>

\* lockutils.synchronized: the lock is taken when no thread holds it
LockFree == lock = {}

\* mutant: _cell_db_sync without the synchronized decorator
EnterCellDbSync_Unsynchronized(t) ==
    /\ pc[t] = "_cell_db_sync"
    /\ lock' = lock \cup {t}
    /\ pc' = [pc EXCEPT ![t] = "recheck"]
    /\ UNCHANGED <<imageVars, passChanged, fetched, now, last_cell_db_check, parent_cells, child_cells, my_cell_state,
                   constructed, op, cell, db_cells_dict, lastCompleted, lastFailed,
                   preempted, stale, calls>>

\* @lockutils.synchronized('cell-db-sync', 'nova-') def _cell_db_sync
EnterCellDbSync(t) ==
    /\ pc[t] = "_cell_db_sync"
    /\ LockFree
    /\ lock' = lock \cup {t}
    /\ pc' = [pc EXCEPT ![t] = "recheck"]
    /\ UNCHANGED <<imageVars, passChanged, fetched, now, last_cell_db_check, parent_cells, child_cells, my_cell_state,
                   constructed, op, cell, db_cells_dict, lastCompleted, lastFailed,
                   preempted, stale, calls>>

\* mutant: _cell_db_sync without the duplicate check
Recheck_NoDuplicateCheck(t) ==
    /\ pc[t] = "recheck"
    /\ pc' = [pc EXCEPT ![t] = "stamp"]
    /\ UNCHANGED <<imageVars, passChanged, fetched, now, last_cell_db_check, lock, parent_cells, child_cells, my_cell_state,
                   constructed, op, cell, db_cells_dict, lastCompleted, lastFailed,
                   preempted, stale, calls>>

\* the duplicate check under the lock; not due: _cell_db_sync returns
Recheck(t) ==
    /\ pc[t] = "recheck"
    /\ IF time_to_sync(now, last_cell_db_check)
       THEN /\ pc' = [pc EXCEPT ![t] = "stamp"]
            /\ UNCHANGED <<lock, preempted>>
       ELSE /\ pc' = [pc EXCEPT ![t] = AfterSync(t)]
            /\ lock' = lock \ {t}
            /\ preempted' = [preempted EXCEPT ![t] = FALSE]
    /\ UNCHANGED <<imageVars, passChanged, fetched, now, last_cell_db_check, parent_cells, child_cells, my_cell_state,
                   constructed, op, cell, db_cells_dict, lastCompleted, lastFailed, stale, calls>>

\* mutant: the pass does not record its time before the fetch
Stamp_NotRecorded(t) ==
    /\ pc[t] = "stamp"
    /\ pc' = [pc EXCEPT ![t] = "_refresh_cells_from_db"]
    /\ preempted' = [u \in Threads |-> IF u # t /\ pc[u] = "_cell_db_sync"
                                       THEN TRUE ELSE preempted[u]]
    /\ passChanged' = FALSE
    /\ UNCHANGED <<imageVars, fetched, now, last_cell_db_check, lock, parent_cells, child_cells, my_cell_state,
                   constructed, op, cell, db_cells_dict, lastCompleted, lastFailed, stale,
                   calls>>

\* self.last_cell_db_check = timeutils.utcnow()
Stamp(t) ==
    /\ pc[t] = "stamp"
    /\ last_cell_db_check' = now
    /\ pc' = [pc EXCEPT ![t] = "_refresh_cells_from_db"]
    /\ preempted' = [u \in Threads |-> IF u # t /\ pc[u] = "_cell_db_sync"
                                       THEN TRUE ELSE preempted[u]]
    /\ passChanged' = FALSE
    /\ UNCHANGED <<imageVars, fetched, now, lock, parent_cells, child_cells, my_cell_state, constructed, op,
                   cell, db_cells_dict, lastCompleted, lastFailed, stale, calls>>

\* the identities in use: the objects of the two maps and those threads refer to
UsedOids ==
    {parent_cells[n].oid : n \in DOMAIN parent_cells}
    \cup {child_cells[n].oid : n \in DOMAIN child_cells}
    \cup UNION {cell[u] : u \in Threads}

\* _refresh_cells_from_db: db.cell_get_all returns db_cells; the first loop
\* updates the current cells and deletes the ones that disappeared
RefreshCellsFromDb(t, db_cells) ==
    /\ pc[t] = "_refresh_cells_from_db"
    /\ LET dbd == DbCellsDict(db_cells)
       IN /\ db_cells_dict' = [db_cells_dict EXCEPT ![t] = dbd]
          /\ parent_cells' = UpdateCurrentCells(parent_cells, dbd)
          /\ child_cells' = UpdateCurrentCells(child_cells, dbd)
    /\ pc' = [pc EXCEPT ![t] = "add_new_cells"]
    /\ passChanged' = (<<parent_cells, child_cells>>' # <<parent_cells, child_cells>>)
    /\ UNCHANGED <<imageVars, fetched, now, last_cell_db_check, lock, my_cell_state, constructed, op, cell,
                   lastCompleted, lastFailed, preempted, stale, calls>>

\* mutant: a failed fetch resets last_cell_db_check, so that the next call retries
RefreshCellsFromDbFails_Resets(t) ==
    /\ pc[t] = "_refresh_cells_from_db"
    /\ pc' = [pc EXCEPT ![t] = "raised"]
    /\ lock' = lock \ {t}
    /\ last_cell_db_check' = MinInstant
    /\ lastFailed' = last_cell_db_check
    /\ preempted' = [preempted EXCEPT ![t] = FALSE]
    /\ UNCHANGED <<imageVars, passChanged, fetched, now, parent_cells, child_cells, my_cell_state,
                   constructed, op, cell, db_cells_dict, lastCompleted, stale, calls>>

\* db.cell_get_all raises: the exception leaves _cell_db_sync, which releases
\* the lock, and the wrapper
RefreshCellsFromDbFails(t) ==
    /\ pc[t] = "_refresh_cells_from_db"
    /\ pc' = [pc EXCEPT ![t] = "raised"]
    /\ lock' = lock \ {t}
    /\ lastFailed' = last_cell_db_check
    /\ preempted' = [preempted EXCEPT ![t] = FALSE]
    /\ UNCHANGED <<imageVars, passChanged, fetched, now, last_cell_db_check, parent_cells, child_cells, my_cell_state,
                   constructed, op, cell, db_cells_dict, lastCompleted, stale, calls>>

\* _refresh_cells_from_db, second loop: add new cells
AddNewCellsFromDb(t) ==
    /\ pc[t] = "add_new_cells"
    /\ LET dbd == db_cells_dict[t]
           created == NewCellNames(parent_cells, child_cells, dbd)
           oids == FreshOids(created, UsedOids)
       IN /\ parent_cells' = AddNewCells(parent_cells, dbd, TRUE, created, oids)
          /\ child_cells' = AddNewCells(child_cells, dbd, FALSE, created, oids)
    /\ db_cells_dict' = [db_cells_dict EXCEPT ![t] = EmptyDict]
    /\ pc' = [pc EXCEPT ![t] = "_update_our_capacity"]
    /\ passChanged' = (passChanged \/ <<parent_cells, child_cells>>' # <<parent_cells, child_cells>>)
    /\ UNCHANGED <<imageVars, fetched, now, last_cell_db_check, lock, my_cell_state, constructed, op, cell,
                   lastCompleted, lastFailed, preempted, stale, calls>>

\* _refresh_cells_from_db as a whole: the maps after both loops, given the
\* rows fetched and the identities other references hold
Reconcile(parents, children, db_cells, held) ==
    LET dbd == DbCellsDict(db_cells)
        current_parents == UpdateCurrentCells(parents, dbd)
        current_children == UpdateCurrentCells(children, dbd)
        created == NewCellNames(current_parents, current_children, dbd)
        used == {current_parents[n].oid : n \in DOMAIN current_parents}
                \cup {current_children[n].oid : n \in DOMAIN current_children}
                \cup held
        oids == FreshOids(created, used)
    IN [parent_cells |-> AddNewCells(current_parents, dbd, TRUE, created, oids),
        child_cells |-> AddNewCells(current_children, dbd, FALSE, created, oids)]

\* _update_our_capacity, then _cell_db_sync returns and releases the lock
UpdateOurCapacity(t, compute_nodes, instance_types) ==
    /\ pc[t] = "_update_our_capacity"
    /\ my_cell_state' =
          update_capacities(my_cell_state, OurCapacity(compute_nodes, instance_types), now)
    /\ lock' = lock \ {t}
    /\ pc' = [pc EXCEPT ![t] = AfterSync(t)]
    /\ lastCompleted' = last_cell_db_check
    /\ preempted' = [preempted EXCEPT ![t] = FALSE]
    /\ stale' = [u \in Threads |-> FALSE]
    /\ fetched' = [compute_nodes |-> compute_nodes, instance_types |-> instance_types]
    /\ passChanged' = FALSE
    /\ UNCHANGED <<imageVars, now, last_cell_db_check, parent_cells, child_cells, constructed, op,
                   cell, db_cells_dict, lastFailed, calls>>

\* mutant: a failed fetch of the compute nodes clears the capacities
UpdateOurCapacityFails_ClearsCapacities(t) ==
    /\ pc[t] = "_update_our_capacity"
    /\ pc' = [pc EXCEPT ![t] = "raised"]
    /\ lock' = lock \ {t}
    /\ lastFailed' = last_cell_db_check
    /\ preempted' = [preempted EXCEPT ![t] = FALSE]
    /\ my_cell_state' = update_capacities(my_cell_state, EmptyDict, now)
    /\ UNCHANGED <<imageVars, passChanged, fetched, now, last_cell_db_check, parent_cells,
                   child_cells, constructed, op, cell, db_cells_dict, lastCompleted, stale,
                   calls>>

\* db.compute_node_get_all or db.instance_type_get_all raises
UpdateOurCapacityFails(t) ==
    /\ pc[t] = "_update_our_capacity"
    /\ pc' = [pc EXCEPT ![t] = "raised"]
    /\ lock' = lock \ {t}
    /\ lastFailed' = last_cell_db_check
    /\ preempted' = [preempted EXCEPT ![t] = FALSE]
    /\ UNCHANGED <<imageVars, passChanged, fetched, now, last_cell_db_check, parent_cells, child_cells, my_cell_state,
                   constructed, op, cell, db_cells_dict, lastCompleted, stale, calls>>

\* __init__ after self._cell_db_sync(): the loop over CONF.cells.capabilities
InitCapabilities(t, caps) ==
    /\ pc[t] = "init_capabilities"
    /\ LET ok == {i \in DOMAIN caps : \A j \in 1 .. i : WellFormed(caps[j])}
       IN /\ my_cell_state' =
                IF ok = {} THEN my_cell_state
                ELSE update_capabilities(my_cell_state,
                                         ParseCapabilities(EmptyDict, caps), now)
          /\ IF ok = DOMAIN caps
             THEN /\ constructed' = TRUE
                  /\ pc' = [pc EXCEPT ![t] = "idle"]
                  /\ op' = [op EXCEPT ![t] = NoOp]
             ELSE /\ pc' = [pc EXCEPT ![t] = "raised"]
                  /\ UNCHANGED <<constructed, op>>
    /\ UNCHANGED <<imageVars, passChanged, fetched, now, last_cell_db_check, lock, parent_cells, child_cells, cell,
                   db_cells_dict, lastCompleted, lastFailed, preempted, stale, calls>>

\* get_my_state, get_child_cells, get_parent_cells, get_parent_cell,
\* get_child_cell, get_our_capabilities, get_our_capacities: reads
Accessor(t) ==
    /\ pc[t] = "f"
    /\ op[t].name = "accessor"
    /\ pc' = [pc EXCEPT ![t] = "idle"]
    /\ op' = [op EXCEPT ![t] = NoOp]
    /\ stale' = [stale EXCEPT ![t] = FALSE]
    /\ UNCHANGED <<imageVars, passChanged, fetched, now, last_cell_db_check, lock, parent_cells, child_cells, my_cell_state,
                   constructed, cell, db_cells_dict, lastCompleted, lastFailed, preempted, calls>>

IsUpdate(o) == o.name \in {"update_cell_capabilities", "update_cell_capacities"}

\* cell = self.child_cells.get(cell_name)
LookupChild(t) ==
    /\ pc[t] = "f"
    /\ IsUpdate(op[t])
    /\ IF op[t].cell_name \in DOMAIN child_cells
       THEN /\ cell' = [cell EXCEPT ![t] = {child_cells[op[t].cell_name].oid}]
            /\ pc' = [pc EXCEPT ![t] = "update"]
       ELSE /\ pc' = [pc EXCEPT ![t] = "lookup_parent"]
            /\ UNCHANGED cell
    /\ UNCHANGED <<imageVars, passChanged, fetched, now, last_cell_db_check, lock, parent_cells, child_cells, my_cell_state,
                   constructed, op, db_cells_dict, lastCompleted, lastFailed, preempted,
                   stale, calls>>

\* mutant: an unknown cell raises instead of being logged
LookupParent_RaisesOnUnknown(t) ==
    /\ pc[t] = "lookup_parent"
    /\ IF op[t].cell_name \in DOMAIN parent_cells
       THEN /\ cell' = [cell EXCEPT ![t] = {parent_cells[op[t].cell_name].oid}]
            /\ pc' = [pc EXCEPT ![t] = "update"]
       ELSE /\ pc' = [pc EXCEPT ![t] = "raised"]
            /\ UNCHANGED cell
    /\ UNCHANGED <<imageVars, passChanged, fetched, now, last_cell_db_check, lock, parent_cells, child_cells, my_cell_state,
                   constructed, op, db_cells_dict, lastCompleted, lastFailed, preempted,
                   stale, calls>>

\* if not cell: cell = self.parent_cells.get(cell_name); if not cell: return
LookupParent(t) ==
    /\ pc[t] = "lookup_parent"
    /\ IF op[t].cell_name \in DOMAIN parent_cells
       THEN /\ cell' = [cell EXCEPT ![t] = {parent_cells[op[t].cell_name].oid}]
            /\ pc' = [pc EXCEPT ![t] = "update"]
            /\ UNCHANGED <<op, stale>>
       ELSE /\ pc' = [pc EXCEPT ![t] = "idle"]
            /\ op' = [op EXCEPT ![t] = NoOp]
            /\ stale' = [stale EXCEPT ![t] = FALSE]
            /\ UNCHANGED cell
    /\ UNCHANGED <<imageVars, passChanged, fetched, now, last_cell_db_check, lock, parent_cells, child_cells, my_cell_state,
                   constructed, db_cells_dict, lastCompleted, lastFailed, preempted, calls>>

\* the CellState whose identity is in o, wherever it is, updated by update_capabilities
SetCapabilities(cells_dict, o, capabilities, t) ==
    [n \in DOMAIN cells_dict |->
        IF cells_dict[n].oid \in o THEN update_capabilities(cells_dict[n], capabilities, t)
        ELSE cells_dict[n]]

\* the CellState whose identity is in o, wherever it is, updated by update_capacities
SetCapacities(cells_dict, o, capacities, t) ==
    [n \in DOMAIN cells_dict |->
        IF cells_dict[n].oid \in o THEN update_capacities(cells_dict[n], capacities, t)
        ELSE cells_dict[n]]

\* update_cell_capabilities: the values become sets; cell.update_capabilities
UpdateCellCapabilities(t, capabilities) ==
    /\ pc[t] = "update"
    /\ op[t].name = "update_cell_capabilities"
    /\ parent_cells' =
          SetCapabilities(parent_cells, cell[t], CapabilitiesAsSets(capabilities), now)
    /\ child_cells' =
          SetCapabilities(child_cells, cell[t], CapabilitiesAsSets(capabilities), now)
    /\ cell' = [cell EXCEPT ![t] = {}]
    /\ pc' = [pc EXCEPT ![t] = "idle"]
    /\ op' = [op EXCEPT ![t] = NoOp]
    /\ stale' = [stale EXCEPT ![t] = FALSE]
    /\ UNCHANGED <<imageVars, passChanged, fetched, now, last_cell_db_check, lock, my_cell_state, constructed,
                   db_cells_dict, lastCompleted, lastFailed, preempted, calls>>

\* update_cell_capacities: cell.update_capacities
UpdateCellCapacities(t, capacities) ==
    /\ pc[t] = "update"
    /\ op[t].name = "update_cell_capacities"
    /\ parent_cells' = SetCapacities(parent_cells, cell[t], capacities, now)
    /\ child_cells' = SetCapacities(child_cells, cell[t], capacities, now)
    /\ cell' = [cell EXCEPT ![t] = {}]
    /\ pc' = [pc EXCEPT ![t] = "idle"]
    /\ op' = [op EXCEPT ![t] = NoOp]
    /\ stale' = [stale EXCEPT ![t] = FALSE]
    /\ UNCHANGED <<imageVars, passChanged, fetched, now, last_cell_db_check, lock, my_cell_state, constructed,
                   db_cells_dict, lastCompleted, lastFailed, preempted, calls>>

\* the exception reaches the caller of the operation
Propagate(t) ==
    /\ pc[t] = "raised"
    /\ op[t].name # "__init__"
    /\ pc' = [pc EXCEPT ![t] = "idle"]
    /\ op' = [op EXCEPT ![t] = NoOp]
    /\ stale' = [stale EXCEPT ![t] = FALSE]
    /\ UNCHANGED <<imageVars, passChanged, fetched, now, last_cell_db_check, lock, parent_cells, child_cells, my_cell_state,
                   constructed, cell, db_cells_dict, lastCompleted, lastFailed, preempted, calls>>

(***************************************************************************)
(* get_our_capabilities and get_our_capacities                             *)
(***************************************************************************)
\* the loop over cell.capabilities.items(): capabs[capab_name] |= values
RECURSIVE UnionCapabilities(_, _)
UnionCapabilities(capabs, capabilities) ==
    IF DOMAIN capabilities = {} THEN capabs
    ELSE LET capab_name == CHOOSE x \in DOMAIN capabilities : TRUE
             withName == IF capab_name \in DOMAIN capabs THEN capabs
                         ELSE DictSet(capabs, capab_name, {})
         IN UnionCapabilities(
                DictSet(withName, capab_name,
                        withName[capab_name] \cup capabilities[capab_name]),
                DictDel(capabilities, capab_name))

\* the loop over the cells of a map, for get_our_capabilities
RECURSIVE UnionCells(_, _)
UnionCells(capabs, cells_dict) ==
    IF DOMAIN cells_dict = {} THEN capabs
    ELSE LET n == CHOOSE x \in DOMAIN cells_dict : TRUE
         IN UnionCells(UnionCapabilities(capabs, cells_dict[n].capabilities),
                       DictDel(cells_dict, n))

\* mutant: the parent cells are included as well
get_our_capabilities_IncludesParents(include_children) ==
    IF include_children
    THEN UnionCells(UnionCells(my_cell_state.capabilities, child_cells), parent_cells)
    ELSE my_cell_state.capabilities

\* what get_our_capabilities returns
get_our_capabilities(include_children) ==
    IF include_children THEN UnionCells(my_cell_state.capabilities, child_cells)
    ELSE my_cell_state.capabilities

\* mutant: a key of src replaces the key of target
RECURSIVE add_to_dict_Replaces(_, _)
add_to_dict_Replaces(target, src) ==
    IF DOMAIN src = {} THEN target
    ELSE LET key == CHOOSE x \in DOMAIN src : TRUE
         IN add_to_dict_Replaces(DictSet(target, key, src[key]), DictDel(src, key))

\* _add_to_dict: nested dictionaries recurse, numbers are added
RECURSIVE add_to_dict(_, _)
add_to_dict(target, src) ==
    IF DOMAIN src = {} THEN target
    ELSE LET key == CHOOSE x \in DOMAIN src : TRUE
             value == src[key]
             added ==
                IF IsDict(value)
                THEN LET withKey == IF key \in DOMAIN target THEN target
                                    ELSE DictSet(target, key, Dict(EmptyDict))
                     IN DictSet(withKey, key,
                                Dict(add_to_dict(withKey[key].dict, value.dict)))
                ELSE LET withKey == IF key \in DOMAIN target THEN target
                                    ELSE DictSet(target, key, Num(0))
                     IN DictSet(withKey, key, Num(withKey[key].num + value.num))
         IN add_to_dict(added, DictDel(src, key))

\* the loop over the child cells, for get_our_capacities
RECURSIVE AddCells(_, _)
AddCells(capacities, cells_dict) ==
    IF DOMAIN cells_dict = {} THEN capacities
    ELSE LET n == CHOOSE x \in DOMAIN cells_dict : TRUE
         IN AddCells(add_to_dict(capacities, cells_dict[n].capacities),
                     DictDel(cells_dict, n))

\* what get_our_capacities returns
get_our_capacities(include_children) ==
    IF include_children THEN AddCells(my_cell_state.capacities, child_cells)
    ELSE my_cell_state.capacities

\* get_our_capabilities, past the staleness gate: a read
GetOurCapabilities(t) ==
    /\ pc[t] = "f"
    /\ op[t].name = "get_our_capabilities"
    /\ pc' = [pc EXCEPT ![t] = "idle"]
    /\ op' = [op EXCEPT ![t] = NoOp]
    /\ stale' = [stale EXCEPT ![t] = FALSE]
    /\ UNCHANGED <<imageVars, passChanged, fetched, now, last_cell_db_check, lock, parent_cells, child_cells, my_cell_state,
                   constructed, cell, db_cells_dict, lastCompleted, lastFailed, preempted, calls>>

\* get_our_capacities, past the staleness gate: a read
GetOurCapacities(t) ==
    /\ pc[t] = "f"
    /\ op[t].name = "get_our_capacities"
    /\ pc' = [pc EXCEPT ![t] = "idle"]
    /\ op' = [op EXCEPT ![t] = NoOp]
    /\ stale' = [stale EXCEPT ![t] = FALSE]
    /\ UNCHANGED <<imageVars, passChanged, fetched, now, last_cell_db_check, lock, parent_cells, child_cells, my_cell_state,
                   constructed, cell, db_cells_dict, lastCompleted, lastFailed, preempted, calls>>

(***************************************************************************)
(* Spec: several threads, few inputs.                                      *)
(***************************************************************************)
FewDbCellLists ==
    {<<>>,
     <<[name |-> "c1", is_parent |-> FALSE, rpc_host |-> "h1"]>>,
     <<[name |-> "c1", is_parent |-> TRUE, rpc_host |-> "h1"]>>}
FewComputeNodeLists == {<<Node("n1", FALSE, 4096, 50)>>}
FewConfCapabilities == {<<<<"x", "=", "a", ";", "b">>>>, <<<<"z">>>>}
FewCallOps ==
    {[name |-> "accessor", cell_name |-> None],
     [name |-> "update_cell_capabilities", cell_name |-> "c1"],
     [name |-> "update_cell_capacities", cell_name |-> "c1"]}
FewCapabilityInputs == {[n \in {"x"} |-> <<"a", "b", "a">>]}
FewCapacityInputs == {[k \in {"ram_free"} |-> FreeEntry(100, [x \in {"10"} |-> 5])]}

Next ==
    \/ \E i \in Instants : Tick(i)
    \/ \E t \in Threads :
        \/ \E o \in FewCallOps : Call(t, o)
        \/ SyncFromDb(t)
        \/ EnterCellDbSync(t)
        \/ Recheck(t)
        \/ Stamp(t)
        \/ \E db_cells \in FewDbCellLists : RefreshCellsFromDb(t, db_cells)
        \/ RefreshCellsFromDbFails(t)
        \/ AddNewCellsFromDb(t)
        \/ \E compute_nodes \in FewComputeNodeLists, instance_types \in InstanceTypeLists :
              UpdateOurCapacity(t, compute_nodes, instance_types)
        \/ UpdateOurCapacityFails(t)
        \/ \E caps \in FewConfCapabilities : InitCapabilities(t, caps)
        \/ Accessor(t)
        \/ LookupChild(t)
        \/ LookupParent(t)
        \/ \E capabilities \in FewCapabilityInputs : UpdateCellCapabilities(t, capabilities)
        \/ \E capacities \in FewCapacityInputs : UpdateCellCapacities(t, capacities)
        \/ Propagate(t)

Spec == Init /\ [][Next]_vars

(***************************************************************************)
(* SpecData: one thread, more inputs.                                      *)
(***************************************************************************)
NextData ==
    \/ \E i \in Instants : Tick(i)
    \/ \E t \in {MainThread} :
        \/ \E o \in CallOps : Call(t, o)
        \/ SyncFromDb(t)
        \/ EnterCellDbSync(t)
        \/ Recheck(t)
        \/ Stamp(t)
        \/ \E db_cells \in DbCellLists : RefreshCellsFromDb(t, db_cells)
        \/ RefreshCellsFromDbFails(t)
        \/ AddNewCellsFromDb(t)
        \/ \E compute_nodes \in ComputeNodeLists, instance_types \in InstanceTypeLists :
              UpdateOurCapacity(t, compute_nodes, instance_types)
        \/ UpdateOurCapacityFails(t)
        \/ \E caps \in ConfCapabilities : InitCapabilities(t, caps)
        \/ Accessor(t)
        \/ LookupChild(t)
        \/ LookupParent(t)
        \/ \E capabilities \in CapabilityInputs : UpdateCellCapabilities(t, capabilities)
        \/ \E capacities \in CapacityInputs : UpdateCellCapacities(t, capacities)
        \/ Propagate(t)

SpecData == Init /\ [][NextData]_vars

(***************************************************************************)
(* SpecAggregate: one thread; the updates of the cells and the two         *)
(* aggregating reads.                                                      *)
(***************************************************************************)
\* get_our_capabilities and get_our_capacities, with their argument
AggregateOps ==
    [name : {"get_our_capabilities", "get_our_capacities"}, cell_name : {None},
     include_children : BOOLEAN]

\* the capacities the cells report
ReportedCapacities ==
    {[k \in {"ram_free"} |-> FreeEntry(100, [x \in {"10"} |-> 5])],
     [k \in {"ram_free"} |-> FreeEntry(50, [x \in {"10", "20"} |-> IF x = "10" THEN 2 ELSE 1])]}

\* the capabilities the cells report: lists of values
ReportedCapabilities ==
    {[n \in {"x"} |-> <<"b", "c", "b">>], [n \in {"y"} |-> <<"b">>]}

\* the cells table: one or two children, at most one parent
AggregateDbCellLists ==
    {<<[name |-> "c1", is_parent |-> FALSE, rpc_host |-> "h1"],
       [name |-> "c2", is_parent |-> is_parent, rpc_host |-> "h1"]>> :
        is_parent \in BOOLEAN}

NextAggregate ==
    \/ \E i \in Instants : Tick(i)
    \/ \E t \in {MainThread} :
        \/ \E o \in CallOps \cup AggregateOps : Call(t, o)
        \/ SyncFromDb(t)
        \/ EnterCellDbSync(t)
        \/ Recheck(t)
        \/ Stamp(t)
        \/ \E db_cells \in AggregateDbCellLists : RefreshCellsFromDb(t, db_cells)
        \/ RefreshCellsFromDbFails(t)
        \/ AddNewCellsFromDb(t)
        \/ \E compute_nodes \in ComputeNodeLists, instance_types \in InstanceTypeLists :
              UpdateOurCapacity(t, compute_nodes, instance_types)
        \/ UpdateOurCapacityFails(t)
        \/ \E caps \in ConfCapabilities : InitCapabilities(t, caps)
        \/ Accessor(t)
        \/ GetOurCapabilities(t)
        \/ GetOurCapacities(t)
        \/ LookupChild(t)
        \/ LookupParent(t)
        \/ \E capabilities \in ReportedCapabilities : UpdateCellCapabilities(t, capabilities)
        \/ \E capacities \in ReportedCapacities : UpdateCellCapacities(t, capacities)
        \/ Propagate(t)

SpecAggregate == Init /\ [][NextAggregate]_vars

(***************************************************************************)
(* SpecDirectory: one thread; the cells table with two transport hosts.    *)
(***************************************************************************)
DirectoryRecords == [name : CellNames, is_parent : BOOLEAN, rpc_host : {"h1", "h2"}]
DirectoryDbCellLists == SeqsUpTo(DirectoryRecords, MaxDbCells)
DirectoryCallOps ==
    {[name |-> "accessor", cell_name |-> None]}
    \cup [name : {"update_cell_capabilities", "update_cell_capacities"}, cell_name : CellNames]

NextDirectory ==
    \/ \E i \in Instants : Tick(i)
    \/ \E t \in {MainThread} :
        \/ \E o \in DirectoryCallOps : Call(t, o)
        \/ SyncFromDb(t)
        \/ EnterCellDbSync(t)
        \/ Recheck(t)
        \/ Stamp(t)
        \/ \E db_cells \in DirectoryDbCellLists : RefreshCellsFromDb(t, db_cells)
        \/ RefreshCellsFromDbFails(t)
        \/ AddNewCellsFromDb(t)
        \/ \E compute_nodes \in FewComputeNodeLists, instance_types \in InstanceTypeLists :
              UpdateOurCapacity(t, compute_nodes, instance_types)
        \/ UpdateOurCapacityFails(t)
        \/ \E caps \in FewConfCapabilities : InitCapabilities(t, caps)
        \/ Accessor(t)
        \/ LookupChild(t)
        \/ LookupParent(t)
        \/ \E capabilities \in FewCapabilityInputs : UpdateCellCapabilities(t, capabilities)
        \/ \E capacities \in FewCapacityInputs : UpdateCellCapacities(t, capacities)
        \/ Propagate(t)

SpecDirectory == Init /\ [][NextDirectory]_vars

(***************************************************************************)
(* SpecCapacity: one thread; the compute nodes and the instance types.     *)
(***************************************************************************)
\* what db.compute_node_get_all may return: compute nodes of enabled and
\* disabled services and without a service, two of one host, free RAM and
\* disk that may be negative
CapacityComputeNodeLists ==
    LET n1 == Node("n1", FALSE, 4096, 50)
        n2 == Node("n2", FALSE, 2048, 20)
        disabled == Node("n2", TRUE, 2048, 20)
        negative == Node("n1", FALSE, 0 - 2048, 0 - 1)
        no_service == [service |-> NoService, free_ram_mb |-> 2048, free_disk_gb |-> 20]
    IN {<<>>, <<n1>>, <<negative>>, <<no_service>>, <<n1, n2>>, <<n1, disabled>>,
        <<n1, no_service>>, <<disabled, no_service>>, <<n1, negative>>}

\* what db.instance_type_get_all may return: two instance types of one
\* size, sizes of zero and negative sizes among them
CapacityInstanceTypeLists ==
    LET small == [memory_mb |-> 1024, root_gb |-> 10, ephemeral_gb |-> 0]
        same == [memory_mb |-> 1024, root_gb |-> 0, ephemeral_gb |-> 10]
        large == [memory_mb |-> 2048, root_gb |-> 20, ephemeral_gb |-> 0]
        zero == [memory_mb |-> 0, root_gb |-> 0, ephemeral_gb |-> 0]
        negative == [memory_mb |-> 0 - 1024, root_gb |-> 0 - 1, ephemeral_gb |-> 0]
    IN {<<>>, <<small>>, <<large>>, <<zero>>, <<negative>>, <<small, same>>,
        <<small, large>>, <<large, small>>, <<zero, negative>>}

CapacityCallOps == {[name |-> "accessor", cell_name |-> None]}

NextCapacity ==
    \/ \E i \in Instants : Tick(i)
    \/ \E t \in {MainThread} :
        \/ \E o \in CapacityCallOps : Call(t, o)
        \/ SyncFromDb(t)
        \/ EnterCellDbSync(t)
        \/ Recheck(t)
        \/ Stamp(t)
        \/ \E db_cells \in FewDbCellLists : RefreshCellsFromDb(t, db_cells)
        \/ RefreshCellsFromDbFails(t)
        \/ AddNewCellsFromDb(t)
        \/ \E compute_nodes \in CapacityComputeNodeLists,
              instance_types \in CapacityInstanceTypeLists :
              UpdateOurCapacity(t, compute_nodes, instance_types)
        \/ UpdateOurCapacityFails(t)
        \/ \E caps \in FewConfCapabilities : InitCapabilities(t, caps)
        \/ Accessor(t)
        \/ Propagate(t)

SpecCapacity == Init /\ [][NextCapacity]_vars

(***************************************************************************)
(* Properties.                                                             *)
(***************************************************************************)
Tracked(n) == n \in (DOMAIN parent_cells) \cup (DOMAIN child_cells)

\* C1 (as stated): of the threads that saw 'due' in the unlocked check, only
\* the first to take the lock goes on to fetch: a thread that was waiting for
\* the lock when another one began its pass never begins a pass itself
\* (stated for the runs in which no pass fails).
C1_OnlyFirstThreadSyncs ==
    \A t \in Threads :
        (pc[t] \in ({"stamp"} \cup AfterStamp) /\ lastFailed = MinInstant) => ~preempted[t]

\* C1 (amended): a thread goes from the check under the lock on to a pass
\* only when at least db_check_interval has passed since the last pass
\* recorded its time, so two threads that saw the same 'due' both fetch only
\* if their passes begin an interval apart; a thread whose check under the
\* lock says 'not due' leaves _cell_db_sync having changed nothing.
C1_SecondPassOnlyAfterInterval ==
    [][\A t \in Threads :
          pc[t] = "recheck" =>
              /\ pc'[t] = "stamp" => Due(now, last_cell_db_check)
              /\ pc'[t] \notin {"recheck", "stamp"} =>
                    /\ pc'[t] = AfterSync(t)
                    /\ UNCHANGED <<last_cell_db_check, parent_cells, child_cells,
                                   my_cell_state, db_cells_dict>>]_vars

\* C1 witness: a thread that saw 'due' and waited for the lock while another
\* thread ran a whole pass is at the check under the lock, which says 'not due'.
C1_Witness ==
    \E t \in Threads :
        /\ preempted[t]
        /\ pc[t] = "recheck"
        /\ ~time_to_sync(now, last_cell_db_check)
        /\ lastCompleted = last_cell_db_check

\* C2: at most one thread is in the body of _cell_db_sync.
C2_OneThreadInSyncBody ==
    Cardinality({t \in Threads : pc[t] \in SyncBody}) <= 1

\* C2 witness: one thread is in the pass while another waits for the lock.
C2_Witness ==
    \E t, u \in Threads : pc[t] \in AfterStamp /\ pc[u] = "_cell_db_sync"

\* C3 (as stated): whenever _time_to_sync is evaluated it says 'due' exactly
\* when the time since last_cell_db_check is at least the interval.
C3_DueIffIntervalElapsed ==
    \A t \in Threads :
        pc[t] \in {"sync_from_db", "recheck"} =>
            (time_to_sync(now, last_cell_db_check) <=> Due(now, last_cell_db_check))

\* C4 (as stated): once the constructor has returned, a synchronization pass
\* has run to its end.
C4_ConstructorSyncs ==
    constructed => lastCompleted # MinInstant

\* C5 (as stated): an accessor that began while a pass was due reads and
\* returns only after a pass has run to its end since the call began.
C5_AccessorReadsAfterSync ==
    \A t \in Threads : (pc[t] = "f" /\ op[t].name = "accessor") => ~stale[t]

\* C6: no name is a key of both maps, and the is_parent of every entry is
\* that of its map.
C6_MapsDisjointAndClassified ==
    /\ (DOMAIN parent_cells) \cap (DOMAIN child_cells) = {}
    /\ \A n \in DOMAIN parent_cells : parent_cells[n].db_info.is_parent = TRUE
    /\ \A n \in DOMAIN child_cells : child_cells[n].db_info.is_parent = FALSE

\* C6 witness: a pass is between its two loops, a parent cell that was
\* updated by update_cell_capabilities is tracked, and a row of a child cell
\* that is not tracked waits to be added.
C6_Witness ==
    \E t \in Threads :
        /\ pc[t] = "add_new_cells"
        /\ \E n \in DOMAIN parent_cells : parent_cells[n].capabilities # EmptyDict
        /\ \E n \in DOMAIN db_cells_dict[t] :
                ~db_cells_dict[t][n].is_parent /\ ~Tracked(n)

\* C7 (as stated): no step of a call of update_cell_capabilities or
\* update_cell_capacities that names a cell in neither map changes the maps
\* or raises.
C7_UnknownCellCallChangesNothing ==
    [][\A t \in Threads :
          (IsUpdate(op[t]) /\ ~Tracked(op[t].cell_name) /\ pc'[t] # pc[t]) =>
              /\ UNCHANGED <<parent_cells, child_cells>>
              /\ pc'[t] # "raised"]_vars

\* C7 (amended): past the staleness gate, the steps of such a call (the two
\* lookups and the return) change neither the maps nor my_cell_state and do
\* not raise.
C7_UnknownCellBodyChangesNothing ==
    [][\A t \in Threads :
          (/\ IsUpdate(op[t])
           /\ pc[t] \in {"f", "lookup_parent"}
           /\ ~Tracked(op[t].cell_name)
           /\ pc'[t] # pc[t]) =>
              /\ UNCHANGED <<parent_cells, child_cells, my_cell_state>>
              /\ pc'[t] \in {"lookup_parent", "idle"}]_vars

\* C7 witness: an update naming an untracked cell has looked in child_cells
\* and is about to look in parent_cells, while another cell is tracked.
C7_Witness ==
    \E t \in Threads :
        /\ IsUpdate(op[t])
        /\ pc[t] = "lookup_parent"
        /\ ~Tracked(op[t].cell_name)
        /\ \E n \in CellNames : Tracked(n)

\* C8: a failed fetch takes the thread out of the operation with the
\* exception and without the lock, leaving last_cell_db_check as the pass
\* set it; the exception goes to the caller; and a pass that follows a
\* failed one has begun at least db_check_interval after it.
C8_FailedPassIsNotRetried ==
    /\ [][\A t \in Threads :
             /\ (pc[t] \in AfterStamp /\ pc'[t] = "raised") =>
                    /\ t \notin lock'
                    /\ last_cell_db_check' = last_cell_db_check
                    /\ lastFailed' = last_cell_db_check
             /\ pc[t] = "raised" => pc'[t] \in {"raised", "idle"}]_vars
    /\ [](\A u \in Threads :
             (pc[u] \in AfterStamp /\ lastFailed # MinInstant) =>
                 last_cell_db_check - lastFailed >= db_check_interval)

\* C8 witness: the last pass failed, less than an interval ago, and a thread
\* is in the staleness check of a new call.
C8_Witness ==
    /\ lastFailed # MinInstant
    /\ last_cell_db_check = lastFailed
    /\ lock = {}
    /\ \E u \in Threads : pc[u] = "sync_from_db" /\ ~Due(now, last_cell_db_check)

\* C9 (as stated): last_cell_db_check is the time of the last pass that ran
\* to its end, or the minimum instant.
C9_LastCheckIsLastCompletedPass ==
    last_cell_db_check = lastCompleted

\* C9 (amended): last_cell_db_check is the time the most recent pass began:
\* during a pass it is later than every pass that ended or failed, and
\* otherwise it is the later of the last completed and the last failed pass.
C9_LastCheckIsLastBegunPass ==
    IF \E t \in Threads : pc[t] \in AfterStamp
    THEN /\ last_cell_db_check > lastCompleted
         /\ last_cell_db_check > lastFailed
         /\ last_cell_db_check <= now
    ELSE last_cell_db_check = Max(lastCompleted, lastFailed)

\* C9 witness: after a completed pass a later pass failed, and
\* last_cell_db_check holds the time of the failed one.
C9_Witness ==
    /\ lastCompleted # MinInstant
    /\ lastFailed > lastCompleted
    /\ last_cell_db_check = lastFailed
    /\ lock = {}

\* the entries of a map other than the objects in o are the same in the next state
OthersUnchanged(cells_dict, cells_dict_next, o) ==
    /\ DOMAIN cells_dict_next = DOMAIN cells_dict
    /\ \A n \in DOMAIN cells_dict :
          cells_dict[n].oid \notin o => cells_dict_next[n] = cells_dict[n]

\* the object in o got new capabilities or capacities among those of inputs,
\* last_seen = now, and nothing else
Replaced(cells_dict, cells_dict_next, o, field, inputs) ==
    \A n \in DOMAIN cells_dict :
        cells_dict[n].oid \in o =>
            /\ cells_dict_next[n][field] \in inputs
            /\ cells_dict_next[n].last_seen = now
            /\ \A k \in (DOMAIN cells_dict[n]) \ {field, "last_seen"} :
                  cells_dict_next[n][k] = cells_dict[n][k]

\* C10 (as stated): no step of a call of update_cell_capabilities or
\* update_cell_capacities that names a tracked cell adds or removes an entry
\* of the maps or changes another CellState.
C10_UpdateCallTouchesOneCell ==
    [][\A t \in Threads :
          (IsUpdate(op[t]) /\ Tracked(op[t].cell_name) /\ pc'[t] # pc[t]) =>
              /\ OthersUnchanged(parent_cells, parent_cells', cell'[t] \cup cell[t])
              /\ OthersUnchanged(child_cells, child_cells', cell'[t] \cup cell[t])]_vars

\* C10 (amended): past the staleness gate, the lookups change nothing, and
\* the update gives the CellState found the argument (capability values as
\* sets) in place of the old value and last_seen = now, and changes no
\* other field, entry or CellState.
C10_UpdateBodyReplacesOneCell ==
    [][\A t \in Threads :
          /\ (pc[t] \in {"f", "lookup_parent"} /\ IsUpdate(op[t]) /\ pc'[t] # pc[t]) =>
                UNCHANGED <<parent_cells, child_cells, my_cell_state>>
          /\ (pc[t] = "update" /\ pc'[t] # pc[t]) =>
                /\ my_cell_state' = my_cell_state
                /\ OthersUnchanged(parent_cells, parent_cells', cell[t])
                /\ OthersUnchanged(child_cells, child_cells', cell[t])
                /\ IF op[t].name = "update_cell_capabilities"
                   THEN LET inputs == {CapabilitiesAsSets(m) : m \in CapabilityInputs}
                        IN /\ Replaced(parent_cells, parent_cells', cell[t],
                                       "capabilities", inputs)
                           /\ Replaced(child_cells, child_cells', cell[t],
                                       "capabilities", inputs)
                   ELSE /\ Replaced(parent_cells, parent_cells', cell[t],
                                    "capacities", CapacityInputs)
                        /\ Replaced(child_cells, child_cells', cell[t],
                                    "capacities", CapacityInputs)]_vars

\* C10 witness: an update is about to be applied to a tracked cell that has
\* capabilities and capacities from earlier updates, and another cell is tracked.
C10_Witness ==
    \E t \in Threads :
        /\ pc[t] = "update"
        /\ \E n \in DOMAIN child_cells :
              /\ child_cells[n].oid \in cell[t]
              /\ child_cells[n].capabilities # EmptyDict
              /\ child_cells[n].capacities # EmptyDict
        /\ DOMAIN parent_cells # {}

\* the names of the capabilities of the cells of a map
CapabilityNames(cells_dict) ==
    UNION {DOMAIN cells_dict[c].capabilities : c \in DOMAIN cells_dict}

\* C11: with include_children, get_our_capabilities returns, for every name
\* of a capability of the local cell or of a child cell, the union of the
\* value sets the local cell and the child cells have for it, and nothing of
\* the parent cells; without it, the capabilities of the local cell.
C11_CapabilitiesAreUnionOverChildren ==
    /\ get_our_capabilities(FALSE) = my_cell_state.capabilities
    /\ LET local == my_cell_state.capabilities
           ret == get_our_capabilities(TRUE)
       IN /\ DOMAIN ret = (DOMAIN local) \cup CapabilityNames(child_cells)
          /\ \A n \in DOMAIN ret :
                ret[n] = (IF n \in DOMAIN local THEN local[n] ELSE {})
                         \cup UNION {child_cells[c].capabilities[n] :
                                        c \in {d \in DOMAIN child_cells :
                                                 n \in DOMAIN child_cells[d].capabilities}}

\* C11 witness: get_our_capabilities(include_children=True) is about to read
\* while the local cell and a child cell have different values for one name
\* and a parent cell has a capability that neither has.
C11_Witness ==
    \E t \in Threads :
        /\ pc[t] = "f"
        /\ op[t].name = "get_our_capabilities"
        /\ op[t].include_children
        /\ \E c \in DOMAIN child_cells :
              \E n \in (DOMAIN child_cells[c].capabilities)
                          \cap (DOMAIN my_cell_state.capabilities) :
                 child_cells[c].capabilities[n] # my_cell_state.capabilities[n]
        /\ \E q \in DOMAIN parent_cells :
              \E n \in DOMAIN parent_cells[q].capabilities :
                 n \notin (DOMAIN my_cell_state.capabilities) \cup CapabilityNames(child_cells)

\* the paths to the numbers of a nested dictionary
RECURSIVE LeafPaths(_)
LeafPaths(d) ==
    UNION {IF IsDict(d[k]) THEN {<<k>> \o q : q \in LeafPaths(d[k].dict)} ELSE {<<k>>} :
              k \in DOMAIN d}

\* the number at a path of a nested dictionary, 0 if there is none
RECURSIVE LeafAt(_, _)
LeafAt(d, path) ==
    IF Head(path) \notin DOMAIN d THEN 0
    ELSE IF Len(path) = 1 THEN d[Head(path)].num
    ELSE LeafAt(d[Head(path)].dict, Tail(path))

\* C12: with include_children, the numbers of what get_our_capacities
\* returns are those at the paths of the capacities of the local cell and of
\* the child cells, and each is the sum of the numbers the local cell and
\* the child cells have at that path, a missing one counting as 0.
C12_CapacitiesAreSumOverChildren ==
    LET local == my_cell_state.capacities
        ret == get_our_capacities(TRUE)
    IN /\ LeafPaths(ret) =
             LeafPaths(local)
             \cup UNION {LeafPaths(child_cells[c].capacities) : c \in DOMAIN child_cells}
       /\ \A path \in LeafPaths(ret) :
             LeafAt(ret, path) =
                LeafAt(local, path)
                + SumFn([c \in DOMAIN child_cells |-> LeafAt(child_cells[c].capacities, path)])

\* C12 witness: get_our_capacities(include_children=True) is about to read
\* while two child cells report ram_free with different keys of units_by_mb
\* and the local cell has capacities of its own.
C12_Witness ==
    \E t \in Threads :
        /\ pc[t] = "f"
        /\ op[t].name = "get_our_capacities"
        /\ op[t].include_children
        /\ my_cell_state.capacities # EmptyDict
        /\ \E c, d \in DOMAIN child_cells :
              /\ c # d
              /\ child_cells[c].capacities # EmptyDict
              /\ child_cells[d].capacities # EmptyDict
              /\ LeafPaths(child_cells[c].capacities) # LeafPaths(child_cells[d].capacities)

\* a row without its name: what update_db_info keeps of it
WithoutName(row) == [k \in (DOMAIN row) \ {"name"} |-> row[k]]

\* a thread ends the second loop of _refresh_cells_from_db in this step
EndsReconciliation(t) == pc[t] = "add_new_cells" /\ pc'[t] = "_update_our_capacity"

\* a thread ends the first loop of _refresh_cells_from_db in this step
EndsFirstLoop(t) == pc[t] = "_refresh_cells_from_db" /\ pc'[t] = "add_new_cells"

\* C13: when a reconciliation against the rows S (keyed by name) ends, the
\* keys of parent_cells are the names of the rows of S with is_parent, the
\* keys of child_cells the names of the other rows, and the db_info of every
\* entry is its row without the name.
C13_MapsMatchSnapshot ==
    [][\A t \in Threads :
          EndsReconciliation(t) =>
              LET S == db_cells_dict[t]
              IN /\ DOMAIN parent_cells' = {n \in DOMAIN S : S[n].is_parent}
                 /\ DOMAIN child_cells' = {n \in DOMAIN S : ~S[n].is_parent}
                 /\ \A n \in DOMAIN parent_cells' :
                       parent_cells'[n].db_info = WithoutName(S[n])
                 /\ \A n \in DOMAIN child_cells' :
                       child_cells'[n].db_info = WithoutName(S[n])]_vars

\* C13 witness: a reconciliation has just ended with a parent and a child
\* tracked, one of them a cell that was updated before this pass began and
\* the other one never updated.
C13_Witness ==
    \E t \in Threads :
        /\ pc[t] = "_update_our_capacity"
        /\ \E n \in DOMAIN parent_cells, c \in DOMAIN child_cells :
              /\ parent_cells[n].last_seen > MinInstant
              /\ parent_cells[n].last_seen < last_cell_db_check
              /\ parent_cells[n].db_info.rpc_host = "h2"
              /\ child_cells[c].last_seen = MinInstant

\* the identities the threads hold in the local variable cell
HeldOids == UNION {cell[u] : u \in Threads}

\* an entry as the second loop creates it
IsNewCellState(c) ==
    /\ c.capabilities = EmptyDict
    /\ c.capacities = EmptyDict
    /\ c.last_seen = MinInstant

\* C14: the first loop removes from its map every cell the rows do not list
\* or list with the other is_parent, and the second loop adds only cells of
\* the rows, each as a new CellState (no capabilities, no capacities,
\* last_seen at the minimum, an identity no entry had), so that a cell that
\* disappeared stays out and the CellState of a reclassified cell is not
\* the one in the other map.
C14_DisappearedAndReclassifiedAreRemoved ==
    [][\A t \in Threads :
          /\ EndsFirstLoop(t) =>
                LET S == db_cells_dict'[t]
                IN /\ \A n \in DOMAIN parent_cells :
                         (n \notin DOMAIN S \/ ~S[n].is_parent) => n \notin DOMAIN parent_cells'
                   /\ \A n \in DOMAIN child_cells :
                         (n \notin DOMAIN S \/ S[n].is_parent) => n \notin DOMAIN child_cells'
                   /\ DOMAIN parent_cells' \subseteq DOMAIN parent_cells
                   /\ DOMAIN child_cells' \subseteq DOMAIN child_cells
          /\ EndsReconciliation(t) =>
                LET S == db_cells_dict[t]
                IN /\ \A n \in (DOMAIN parent_cells') \ (DOMAIN parent_cells) :
                         /\ n \in DOMAIN S /\ S[n].is_parent
                         /\ IsNewCellState(parent_cells'[n])
                         /\ parent_cells'[n].oid \notin UsedOids
                   /\ \A n \in (DOMAIN child_cells') \ (DOMAIN child_cells) :
                         /\ n \in DOMAIN S /\ ~S[n].is_parent
                         /\ IsNewCellState(child_cells'[n])
                         /\ child_cells'[n].oid \notin UsedOids
                   /\ \A n \in DOMAIN parent_cells : parent_cells'[n] = parent_cells[n]
                   /\ \A n \in DOMAIN child_cells : child_cells'[n] = child_cells[n]]_vars

\* C14 witness: a reconciliation is between its loops; the first loop has
\* removed the CellState of a cell (identities are given lowest first, and
\* a lower one than that of a tracked cell is in no map) that the rows list
\* as a parent and that is now in neither map.
C14_Witness ==
    \E t \in Threads :
        /\ pc[t] = "add_new_cells"
        /\ \E n \in DOMAIN db_cells_dict[t] :
              db_cells_dict[t][n].is_parent /\ ~Tracked(n)
        /\ \E n \in DOMAIN child_cells :
              \E o \in 1 .. (child_cells[n].oid - 1) : o \notin UsedOids

\* the entries present before and after a step differ at most in db_info
OnlyDbInfoChanges(cells_dict, cells_dict_next) ==
    \A n \in (DOMAIN cells_dict) \cap (DOMAIN cells_dict_next) :
        [cells_dict_next[n] EXCEPT !.db_info = cells_dict[n].db_info] = cells_dict[n]

\* C15: the steps of a pass change, of a cell that stays in its map, db_info
\* only; the reconciliation leaves the local cell alone and the capacity
\* computation leaves the two maps alone.
C15_PassChangesOnlyDbInfo ==
    [][\A t \in Threads :
          (pc[t] \in AfterStamp /\ pc'[t] # pc[t]) =>
              /\ OnlyDbInfoChanges(parent_cells, parent_cells')
              /\ OnlyDbInfoChanges(child_cells, child_cells')
              /\ pc[t] # "_update_our_capacity" => my_cell_state' = my_cell_state
              /\ pc[t] = "_update_our_capacity" => UNCHANGED <<parent_cells, child_cells>>]_vars

\* C15 witness: a pass is at its end, and a cell that got capabilities
\* before the pass began is tracked with them, its db_info from the second
\* pass over it.
C15_Witness ==
    \E t \in Threads :
        /\ pc[t] = "_update_our_capacity"
        /\ lastCompleted # MinInstant
        /\ \E n \in DOMAIN child_cells :
              /\ child_cells[n].capabilities # EmptyDict
              /\ child_cells[n].last_seen < last_cell_db_check
              /\ child_cells[n].db_info.rpc_host = "h2"

\* C16: from the maps a reconciliation finds, and for every list of rows,
\* reconciling twice with the list gives the maps (keys, identities and
\* fields of the entries) that reconciling once gives.
C16_ReconciliationIsIdempotent ==
    \A t \in Threads :
        pc[t] = "_refresh_cells_from_db" =>
            \A S \in DirectoryDbCellLists :
                LET once == Reconcile(parent_cells, child_cells, S, HeldOids)
                    twice == Reconcile(once.parent_cells, once.child_cells, S, HeldOids)
                IN twice = once

\* C16 witness: a reconciliation is about to run on maps that hold a parent
\* and a child, one of them with capabilities.
C16_Witness ==
    \E t \in Threads :
        /\ pc[t] = "_refresh_cells_from_db"
        /\ DOMAIN parent_cells # {}
        /\ \E n \in DOMAIN child_cells : child_cells[n].capabilities # EmptyDict

\* the compute nodes whose service is present and enabled
Eligible(compute_nodes) ==
    {i \in DOMAIN compute_nodes :
        /\ compute_nodes[i].service # NoService
        /\ ~compute_nodes[i].service.disabled}

\* one compute node for each eligible host: the last one of the host
EligibleHosts(compute_nodes) ==
    {i \in Eligible(compute_nodes) :
        \A j \in Eligible(compute_nodes) :
            compute_nodes[j].service.host = compute_nodes[i].service.host => j <= i}

\* an entry of units_by_mb, and total_mb, of capacities
UnitsByMb(capacities, kind, size) ==
    capacities[kind].dict["units_by_mb"].dict[ToString(size)].num
TotalMb(capacities, kind) == capacities[kind].dict["total_mb"].num

\* the instances of a size that fit on the hosts: on each host the floor of
\* free / size, and none where nothing is free
Fit(compute_nodes, field, scale, size) ==
    SumFn([j \in EligibleHosts(compute_nodes) |->
              Max(0, (compute_nodes[j][field] * scale) \div size)])

\* C17 (as stated): after _update_our_capacity, for every instance type with
\* a positive memory size m, units_by_mb[str(m)] of ram_free is the number
\* of instances of size m that fit on the eligible hosts, and likewise for
\* disk_free and a positive disk size, whatever other instance types the
\* catalog holds.
C17_UnitsAreInstancesThatFit ==
    Eligible(fetched.compute_nodes) # {} =>
        \A i \in DOMAIN fetched.instance_types :
            LET m == fetched.instance_types[i].memory_mb
                d == DiskMb(fetched.instance_types[i])
            IN /\ m > 0 =>
                    UnitsByMb(my_cell_state.capacities, "ram_free", m)
                       = Fit(fetched.compute_nodes, "free_ram_mb", 1, m)
               /\ d > 0 =>
                    UnitsByMb(my_cell_state.capacities, "disk_free", d)
                       = Fit(fetched.compute_nodes, "free_disk_gb", 1024, d)

\* C18: after _update_our_capacity with an eligible host, total_mb of
\* ram_free is the sum of free_ram_mb, and total_mb of disk_free the sum of
\* free_disk_gb * 1024, over the eligible hosts, each counted once, whatever
\* the instance types are.
C18_TotalIsSumOverHosts ==
    Eligible(fetched.compute_nodes) # {} =>
        /\ TotalMb(my_cell_state.capacities, "ram_free") =
              SumFn([j \in EligibleHosts(fetched.compute_nodes) |->
                        fetched.compute_nodes[j].free_ram_mb])
        /\ TotalMb(my_cell_state.capacities, "disk_free") =
              SumFn([j \in EligibleHosts(fetched.compute_nodes) |->
                        fetched.compute_nodes[j].free_disk_gb * 1024])

\* C18 witness: a pass has ended with the free RAM of two hosts, 4096 MB and
\* 2048 MB, in total_mb, and two instance types in the catalog.
C18_Witness ==
    /\ lastCompleted = last_cell_db_check
    /\ lastCompleted # MinInstant
    /\ lock = {}
    /\ my_cell_state.capacities # EmptyDict
    /\ TotalMb(my_cell_state.capacities, "ram_free") = 4096 + 2048
    /\ Cardinality(DOMAIN my_cell_state.capacities["ram_free"].dict["units_by_mb"].dict) = 2

\* u is max(0, floor(a / b)), b # 0, by the definition of the floor
IsClampedFloor(u, a, b) ==
    IF b > 0
    THEN \/ u > 0 /\ u * b <= a /\ a < (u + 1) * b
         \/ u = 0 /\ a < b
    ELSE \/ u > 0 /\ u * b >= a /\ a > (u + 1) * b
         \/ u = 0 /\ a > b

SmallIntegers == (0 - MaxFree) .. MaxFree

\* one eligible compute node and one instance type were fetched
OneHostOneInstanceType ==
    /\ Len(fetched.compute_nodes) = 1
    /\ Eligible(fetched.compute_nodes) # {}
    /\ Len(fetched.instance_types) = 1

\* C19 (as stated): _free_units(free, size) is max(0, floor(free / size))
\* when size > 0 and 0 otherwise: for one host and one instance type, the
\* entry of units_by_mb of ram_free is that of the free RAM and the memory
\* size, and the entry of disk_free that of the free disk and the disk size.
C19_FreeUnitsZeroUnlessSizePositive ==
    OneHostOneInstanceType =>
        LET m == fetched.instance_types[1].memory_mb
            d == DiskMb(fetched.instance_types[1])
            ram == UnitsByMb(my_cell_state.capacities, "ram_free", m)
            disk == UnitsByMb(my_cell_state.capacities, "disk_free", d)
        IN /\ IF m > 0 THEN IsClampedFloor(ram, fetched.compute_nodes[1].free_ram_mb, m)
                       ELSE ram = 0
           /\ IF d > 0 THEN IsClampedFloor(disk, fetched.compute_nodes[1].free_disk_gb * 1024, d)
                       ELSE disk = 0

\* every entry of units_by_mb of capacities is a non-negative number
UnitsNonNegative(capacities) ==
    \A kind \in DOMAIN capacities :
        \A k \in DOMAIN capacities[kind].dict["units_by_mb"].dict :
            capacities[kind].dict["units_by_mb"].dict[k].num >= 0

\* C19 (amended): _free_units(free, size) is max(0, floor(free / size)) when
\* size # 0, which for a negative size is positive when free is below size,
\* and 0 when size = 0 (nothing is divided by zero); so for one host and one
\* instance type the entries of units_by_mb are these numbers, and every
\* entry of units_by_mb of the local cell is a non-negative number.
C19_FreeUnitsClampedUnlessSizeZero ==
    /\ \A free \in SmallIntegers, size \in SmallIntegers :
          IF size # 0 THEN IsClampedFloor(free_units(free, size), free, size)
          ELSE free_units(free, size) = 0
    /\ UnitsNonNegative(my_cell_state.capacities)
    /\ OneHostOneInstanceType =>
          LET m == fetched.instance_types[1].memory_mb
              d == DiskMb(fetched.instance_types[1])
              ram == UnitsByMb(my_cell_state.capacities, "ram_free", m)
              disk == UnitsByMb(my_cell_state.capacities, "disk_free", d)
          IN /\ IF m # 0 THEN IsClampedFloor(ram, fetched.compute_nodes[1].free_ram_mb, m)
                         ELSE ram = 0
             /\ IF d # 0
                THEN IsClampedFloor(disk, fetched.compute_nodes[1].free_disk_gb * 1024, d)
                ELSE disk = 0

\* C19 witness: a pass has ended for a host with negative free RAM and
\* instance types of memory size 0 and -1024: total_mb is negative, the
\* entry of size 0 is 0 and the entry of size -1024 is positive.
C19_Witness ==
    /\ lastCompleted = last_cell_db_check
    /\ lock = {}
    /\ my_cell_state.capacities # EmptyDict
    /\ TotalMb(my_cell_state.capacities, "ram_free") < 0
    /\ {"0", "-1024"} \subseteq DOMAIN my_cell_state.capacities["ram_free"].dict["units_by_mb"].dict
    /\ UnitsByMb(my_cell_state.capacities, "ram_free", 0) = 0
    /\ UnitsByMb(my_cell_state.capacities, "ram_free", 0 - 1024) > 0

\* the compute nodes of a list that are eligible, in their order
EligibleOnly(compute_nodes) ==
    SelectSeq(compute_nodes, LAMBDA c : c.service # NoService /\ ~c.service.disabled)

\* C20: the capacities of the local cell are those _update_our_capacity
\* gives for the eligible compute nodes alone, and the empty dictionary when
\* there is none; and a pass whose _update_our_capacity fetched no eligible
\* compute node ends without an error, having replaced the capacities.
C20_IneligibleHostsCountForNothing ==
    /\ [](/\ my_cell_state.capacities =
                OurCapacity(EligibleOnly(fetched.compute_nodes), fetched.instance_types)
          /\ Eligible(fetched.compute_nodes) = {} => my_cell_state.capacities = EmptyDict)
    /\ [][\A t \in Threads :
             (/\ pc[t] = "_update_our_capacity"
              /\ pc'[t] \notin {"_update_our_capacity", "raised"}
              /\ Eligible(fetched'.compute_nodes) = {}) =>
                 /\ my_cell_state'.capacities = EmptyDict
                 /\ my_cell_state'.last_seen = now
                 /\ pc'[t] = AfterSync(t)
                 /\ t \notin lock'
                 /\ lastCompleted' = last_cell_db_check]_vars

\* C20 witness: a pass of a call, after the constructor's, has ended having
\* fetched a disabled compute node and one without a service, and the local
\* cell has no capacities.
C20_Witness ==
    /\ constructed
    /\ calls > 0
    /\ lastCompleted = last_cell_db_check
    /\ lastCompleted # MinInstant
    /\ lastFailed = MinInstant
    /\ my_cell_state.capacities = EmptyDict
    /\ my_cell_state.last_seen = last_cell_db_check
    /\ \E t \in Threads : pc[t] = "f"
    /\ Len(fetched.compute_nodes) = 2
    /\ \E i \in DOMAIN fetched.compute_nodes : fetched.compute_nodes[i].service = NoService

\* a thread's pass raises in this step
PassRaises(t) == pc[t] \in AfterStamp /\ pc'[t] = "raised"

\* C21 (as stated): when a pass raises, in the fetch of the cells, of the
\* compute nodes or of the instance types, the pass has changed neither the
\* maps nor the local cell.
C21_FailedPassChangesOnlyLastCheck ==
    [][\A t \in Threads :
          PassRaises(t) =>
              /\ ~passChanged
              /\ UNCHANGED <<parent_cells, child_cells, my_cell_state>>]_vars

\* C21 (amended): a pass that raises in the fetch of the cells has changed
\* nothing but last_cell_db_check; a pass that raises in the fetch of the
\* compute nodes or of the instance types has reconciled the maps with the
\* cells table before, and the step that raises changes neither the maps
\* nor the local cell; no step of a pass before _update_our_capacity changes
\* the local cell, so its capacities are those from before the pass.
C21_FailedPassKeepsCapacities ==
    [][\A t \in Threads :
          /\ PassRaises(t) =>
                /\ UNCHANGED <<parent_cells, child_cells, my_cell_state, last_cell_db_check>>
                /\ pc[t] = "_refresh_cells_from_db" => ~passChanged
          /\ (pc[t] \in {"stamp", "_refresh_cells_from_db", "add_new_cells"}
              /\ pc'[t] # pc[t]) => my_cell_state' = my_cell_state
          /\ (pc[t] = "stamp" /\ pc'[t] # pc[t]) => UNCHANGED <<parent_cells, child_cells>>]_vars

\* C21 witness: a pass has raised in _update_our_capacity after it changed
\* the maps, and the local cell has the capacities of an earlier pass.
C21_Witness ==
    \E t \in Threads :
        /\ pc[t] = "raised"
        /\ passChanged
        /\ lastFailed = last_cell_db_check
        /\ lastCompleted # MinInstant
        /\ my_cell_state.capacities # EmptyDict
        /\ my_cell_state.last_seen < last_cell_db_check

(***************************************************************************)
(* virt/images.py: fetch_to_raw.                                           *)
(***************************************************************************)
\* the argument path of fetch_to_raw, and the two names it derives from it
path == "/instances/_base/image"
path_tmp == path \o ".part"
staged == path \o ".converted"

\* the images a call may be given: what qemu-img info reports of the
\* downloaded file, and of the file qemu-img convert makes of it
Images ==
    [file_format : {None, "raw", "qcow2"},
     backing_file : {None, "/instances/_base/backing"},
     converted_format : {"raw", "qcow2"}]

\* utils.remove_path_on_error(p), when its block raises: p is deleted if it
\* exists, and the exception goes on
remove_path_on_error(fs, p) == fs \ {p}

\* os.rename(src, dst)
rename(fs, src, dst) == (fs \ {src}) \cup {dst}

\* a call of fetch_to_raw(context, image_href, path, user_id, project_id)
InitImages ==
    /\ InitCells
    /\ files = {}
    /\ fetch_pc = "fetch"
    /\ image \in Images
    /\ force_raw_images \in BOOLEAN

\* fetch(context, image_href, path_tmp, ...): the image is downloaded to path_tmp
Fetch ==
    /\ fetch_pc = "fetch"
    /\ files' = files \cup {path_tmp}
    /\ fetch_pc' = "qemu_img_info"
    /\ UNCHANGED <<cellVars, image, force_raw_images>>

\* fetch raises: no image service, path_tmp cannot be opened, or the
\* download fails and the file it opened is removed
FetchFails ==
    /\ fetch_pc = "fetch"
    /\ files' = remove_path_on_error(files \cup {path_tmp}, path_tmp)
    /\ fetch_pc' = "raised"
    /\ UNCHANGED <<cellVars, image, force_raw_images>>

\* data = qemu_img_info(path_tmp), and the tests of fmt and backing_file
InspectDownloaded ==
    /\ fetch_pc = "qemu_img_info"
    /\ IF image.file_format = None \/ image.backing_file # None
       THEN /\ files' = remove_path_on_error(files, path_tmp)
            /\ fetch_pc' = "raised"
       ELSE /\ files' = files
            /\ fetch_pc' = IF image.file_format # "raw" /\ force_raw_images
                           THEN "convert_image" ELSE "rename"
    /\ UNCHANGED <<cellVars, image, force_raw_images>>

\* qemu-img info of path_tmp fails: utils.execute raises
InspectDownloadedFails ==
    /\ fetch_pc = "qemu_img_info"
    /\ files' = remove_path_on_error(files, path_tmp)
    /\ fetch_pc' = "raised"
    /\ UNCHANGED <<cellVars, image, force_raw_images>>

\* convert_image(path_tmp, staged, 'raw')
ConvertImage ==
    /\ fetch_pc = "convert_image"
    /\ files' = files \cup {staged}
    /\ fetch_pc' = "qemu_img_info_staged"
    /\ UNCHANGED <<cellVars, image, force_raw_images>>

\* qemu-img convert fails: what it wrote of staged is removed, then path_tmp
ConvertImageFails ==
    /\ fetch_pc = "convert_image"
    /\ files' = remove_path_on_error(remove_path_on_error(files \cup {staged}, staged), path_tmp)
    /\ fetch_pc' = "raised"
    /\ UNCHANGED <<cellVars, image, force_raw_images>>

\* data = qemu_img_info(staged), and the test of its file_format
InspectStaged ==
    /\ fetch_pc = "qemu_img_info_staged"
    /\ IF image.converted_format # "raw"
       THEN /\ files' = remove_path_on_error(remove_path_on_error(files, staged), path_tmp)
            /\ fetch_pc' = "raised"
       ELSE /\ files' = files
            /\ fetch_pc' = "rename_staged"
    /\ UNCHANGED <<cellVars, image, force_raw_images>>

\* qemu-img info of staged fails
InspectStagedFails ==
    /\ fetch_pc = "qemu_img_info_staged"
    /\ files' = remove_path_on_error(remove_path_on_error(files, staged), path_tmp)
    /\ fetch_pc' = "raised"
    /\ UNCHANGED <<cellVars, image, force_raw_images>>

\* os.rename(staged, path), the last statement of the conversion
RenameStaged ==
    /\ fetch_pc = "rename_staged"
    /\ files' = rename(files, staged, path)
    /\ fetch_pc' = "returned"
    /\ UNCHANGED <<cellVars, image, force_raw_images>>

\* os.rename(staged, path) raises
RenameStagedFails ==
    /\ fetch_pc = "rename_staged"
    /\ files' = remove_path_on_error(remove_path_on_error(files, staged), path_tmp)
    /\ fetch_pc' = "raised"
    /\ UNCHANGED <<cellVars, image, force_raw_images>>

\* os.rename(path_tmp, path): the image needs no conversion
RenameDownloaded ==
    /\ fetch_pc = "rename"
    /\ files' = rename(files, path_tmp, path)
    /\ fetch_pc' = "returned"
    /\ UNCHANGED <<cellVars, image, force_raw_images>>

\* os.rename(path_tmp, path) raises
RenameDownloadedFails ==
    /\ fetch_pc = "rename"
    /\ files' = remove_path_on_error(files, path_tmp)
    /\ fetch_pc' = "raised"
    /\ UNCHANGED <<cellVars, image, force_raw_images>>

NextImages ==
    \/ Fetch
    \/ FetchFails
    \/ InspectDownloaded
    \/ InspectDownloadedFails
    \/ ConvertImage
    \/ ConvertImageFails
    \/ InspectStaged
    \/ InspectStagedFails
    \/ RenameStaged
    \/ RenameStagedFails
    \/ RenameDownloaded
    \/ RenameDownloadedFails

SpecImages == InitImages /\ [][NextImages]_vars

\* C22: when fetch_to_raw has finished, neither path.part nor
\* path.converted remains; the image is at path when it returned, and path
\* does not exist when it raised.
C22_NoTemporaryFileRemains ==
    fetch_pc \in {"returned", "raised"} =>
        /\ path_tmp \notin files
        /\ staged \notin files
        /\ fetch_pc = "returned" => path \in files
        /\ fetch_pc = "raised" => path \notin files
====
